---------------------------- MODULE Spec2Model ----------------------------
(* Model of the type cache of oxc_type_checker                             *)
(* (crates/oxc_type_checker/src/subsystem/type_cache.rs): the canonical   *)
(* TypeList key and the TypeCache tables with their get/add operations.   *)
EXTENDS Integers, Sequences, FiniteSets, TLC

(***************************************************************************)
(* Bounds of the model.                                                    *)
(***************************************************************************)
\* member TypeIds of a compound type are drawn from 1..MaxMember
MaxMember == 3
\* longest member-id slice handed to TypeList::new
MaxLen == 3
\* callers of the cache build unions over the member ids 1..MaxKeyMember
MaxKeyMember == 2
\* number of add calls an unconstrained caller makes
MaxOps == 2
\* number of requests made by callers that follow get-before-add
MaxReqs == 2

VARIABLES
    \* --- TypeCache fields (type_cache.rs:29-78) ---
    tuples,
    unions,
    union_of_unions,
    intersections,
    string_literals,
    number_literals,
    big_int_literals,
    \* --- the RefCell around each table (type_cache.rs:13) ---
    borrow_flag,        \* per table: 0 unused, n > 0 readers, -1 one writer
    already_borrowed,   \* a borrow or borrow_mut has panicked
    \* --- build configuration and process state ---
    debug_assertions,   \* cfg!(debug_assertions): debug_assert! is compiled in
    panicked,           \* a debug_assert! has failed
    last,               \* the last operation called and what it returned
    nops,               \* add calls made so far
    \* --- callers that follow get-before-add ---
    cpc,                \* per call site: "idle", "hit" or "miss"
    creq,               \* per call site: the request in progress
    next_id,            \* the next TypeId the checker creates
    served,             \* the requests answered so far
    nreq,               \* requests started so far
    \* --- TypeList construction on its own ---
    types_a,            \* first input slice
    types_b,            \* second input slice
    list_a,             \* TypeList::new(types_a), once built
    list_b,             \* TypeList::new(types_b), once built
    relist_a,           \* TypeList::new(&*list_a), once built
    from_a,             \* TypeList::from_iter over types_a, once built
    tuple_a,            \* getTypeListId(types_a), once built
    tuple_b,            \* getTypeListId(types_b), once built
    clone_a,            \* list_a.clone_in(alloc), once called
    clone_panicked,     \* clone_in has panicked
    lpc,                \* position of the TypeList driver
    \* --- JSDocPluginSettings (jsdoc.rs) ---
    tag_name_preference,    \* the settings' tagNamePreference map
    original_name,          \* the tag name asked about
    resolved,               \* resolve_tag_name(original_name), once called
    preferred,              \* check_preferred_tag_name(original_name), once called
    blocked,                \* check_blocked_tag_name(original_name), once called
    jpc                     \* position of the settings driver

tables == <<tuples, unions, union_of_unions, intersections,
            string_literals, number_literals, big_int_literals>>
proc == <<debug_assertions, panicked, last, nops>>
session == <<cpc, creq, next_id, served, nreq>>
jsdoc == <<tag_name_preference, original_name, resolved, preferred, blocked, jpc>>
cloned == <<clone_a, clone_panicked>>
lists == <<types_a, types_b, list_a, list_b, relist_a, from_a, tuple_a, tuple_b, lpc,
           cloned, jsdoc>>
cells == <<borrow_flag, already_borrowed>>
vars == <<tables, cells, proc, session, lists>>

(***************************************************************************)
(* Values.                                                                 *)
(***************************************************************************)
\* Option<TypeId>: None is the empty set, Some(id) the singleton.
None == {}
Some(id) == {id}

MemberIds == 1..MaxMember
\* TypeIds the checker creates for new compound or literal types
NewIds == {100, 200}

RECURSIVE SeqsUpTo(_)
SeqsUpTo(n) ==
    IF n = 0 THEN {<<>>}
    ELSE LET shorter == SeqsUpTo(n - 1)
         IN shorter \cup {Append(s, x) : s \in {t \in shorter : Len(t) = n - 1},
                                          x \in MemberIds}
\* the &[TypeId] slices callers pass
Slices == SeqsUpTo(MaxLen)

Range(s) == {s[i] : i \in 1..Len(s)}

(***************************************************************************)
(* TypeList (type_cache.rs:174-213).                                       *)
(***************************************************************************)
\* variant: the copy stops one element short
extend_from_slice_short(v, types) ==
    v \o SubSeq(types, 1, Len(types) - 1)

\* Vec::extend_from_slice onto an empty Vec: the elements, in input order.
extend_from_slice(v, types) == v \o types

\* one step of the sort: x placed before the first element not below it
RECURSIVE SortedInsert(_, _)
SortedInsert(x, s) ==
    IF s = <<>> THEN <<x>>
    ELSE IF x <= Head(s) THEN <<x>> \o s
    ELSE <<Head(s)>> \o SortedInsert(x, Tail(s))

\* variant: the sort is left out
sort_unstable_skipped(v) == v

\* Vec::sort_unstable on TypeId (Ord by numeric value): ascending order.
RECURSIVE InsertionSort(_)
InsertionSort(v) ==
    IF v = <<>> THEN <<>>
    ELSE SortedInsert(Head(v), InsertionSort(Tail(v)))

sort_unstable(v) == InsertionSort(v)

\* variant: the dedup is left out
dedup_skipped(v) == v

\* Vec::dedup: removes consecutive repeated elements, keeping the first.
RECURSIVE dedup_by_eq(_)
dedup_by_eq(v) ==
    IF Len(v) <= 1 THEN v
    ELSE IF v[1] = v[2] THEN dedup_by_eq(Tail(v))
    ELSE <<v[1]>> \o dedup_by_eq(Tail(v))

dedup(v) == dedup_by_eq(v)

\* variant: duplicates are removed before the sort instead of after it
TypeList_new_dedup_first(types) ==
    sort_unstable(dedup(extend_from_slice(<<>>, types)))

\* TypeList::new: copy, sort, dedup (shrink_to_fit only changes capacity).
TypeList_new(types) ==
    dedup(sort_unstable(extend_from_slice(<<>>, types)))

\* Vec::from_iter_in: every item the iterator yields, pushed in turn
RECURSIVE Vec_from_iter_in(_, _)
Vec_from_iter_in(v, iter) ==
    IF iter = <<>> THEN v
    ELSE Vec_from_iter_in(Append(v, Head(iter)), Tail(iter))

\* variant: the dedup is left out of from_iter
TypeList_from_iter_no_dedup(iter) ==
    sort_unstable(Vec_from_iter_in(<<>>, iter))

\* TypeList::from_iter: collect, sort, dedup
TypeList_from_iter(iter) ==
    dedup(sort_unstable(Vec_from_iter_in(<<>>, iter)))

\* Deref for TypeList: the slice view of the stored Vec.
deref(list) == list

\* Vec::with_capacity_in(capacity, alloc): room for capacity elements, none
\* of them in the vector yet
Vec_with_capacity_in(capacity) == <<>>

\* <[T]>::copy_from_slice: panics unless both slices have the same length
copy_from_slice(dst, src) ==
    IF Len(dst) = Len(src)
    THEN [panicked |-> FALSE, slice |-> src]
    ELSE [panicked |-> TRUE, slice |-> dst]

\* CloneIn for TypeList: the panic ends the call, no list is returned
clone_in(list) ==
    LET v == Vec_with_capacity_in(Len(list))
        copied == copy_from_slice(v, deref(list))
    IN [panicked |-> copied.panicked,
        list |-> IF copied.panicked THEN <<>> ELSE copied.slice]

\* TypeList::iter: the stored ids, copied, in stored order.
iter(list) == [i \in 1..Len(list) |-> list[i]]

\* derive(PartialEq, Eq) on TypeList(Vec<TypeId>): element-wise slice equality.
TypeList_eq(a, b) ==
    /\ Len(a) = Len(b)
    /\ \A i \in 1..Len(a) : a[i] = b[i]


(***************************************************************************)
(* getTypeListId (type_cache.rs:146-168): the string id the tables keyed   *)
(* by String are indexed with.  The string is modelled by its pieces       *)
(* between the commas: <<startId>> for "startId" and <<startId, count>>    *)
(* for "startId:count".                                                    *)
(***************************************************************************)
\* the inner while loop: the length of the run of consecutive ids at i
RECURSIVE RunCount(_, _, _)
RunCount(types, i, count) ==
    IF i + count <= Len(types) /\ types[i + count] = types[i] + count
    THEN RunCount(types, i, count + 1)
    ELSE count

\* the outer while loop, from index i on
RECURSIVE TypeListIdFrom(_, _, _)
TypeListIdFrom(types, i, result) ==
    IF i > Len(types) THEN result
    ELSE LET startId == types[i]
             count == RunCount(types, i, 1)
             piece == IF count > 1 THEN <<startId, count>> ELSE <<startId>>
         IN TypeListIdFrom(types, i + count, Append(result, piece))

\* variant: the id is taken of the sorted, deduplicated TypeList
getTypeListId_of_type_list(types) == TypeListIdFrom(TypeList_new(types), 1, <<>>)

getTypeListId(types) == TypeListIdFrom(types, 1, <<>>)

(***************************************************************************)
(* Keys of the literal tables.                                             *)
(***************************************************************************)
\* Number keys, compared and hashed by their bit representation
\* (sign, exponent and fraction fields of the 64-bit value).
PosZero == [sign |-> 0, exponent |-> 0, fraction |-> 0]
NegZero == [sign |-> 1, exponent |-> 0, fraction |-> 0]
One == [sign |-> 0, exponent |-> 1023, fraction |-> 0]
QuietNaN == [sign |-> 0, exponent |-> 2047, fraction |-> 1]
Numbers == {PosZero, NegZero, One, QuietNaN}

\* Atom keys: the text of a string literal, the raw text of a big-int literal
Atoms == {"1", "0x1"}

(***************************************************************************)
(* Cache<K> = RefCell<FxHashMap<K, TypeId>> (type_cache.rs:13).            *)
(* A table is a function from the keys it holds to their TypeId.           *)
(***************************************************************************)
\* Cache::default(): the empty map
Cache_default == <<>>

\* HashMap::get(k).copied()
HashMap_get(m, k) == IF k \in DOMAIN m THEN Some(m[k]) ELSE None

\* variant: an existing entry is kept (entry().or_insert())
HashMap_insert_keep_first(m, k, v) ==
    [x \in (DOMAIN m) \cup {k} |-> IF x \in DOMAIN m THEN m[x] ELSE v]

\* HashMap::insert(k, v): the map afterwards (the entry for k replaced or added)
HashMap_insert(m, k, v) ==
    [x \in (DOMAIN m) \cup {k} |-> IF x = k THEN v ELSE m[x]]

\* HashMap::insert(k, v): its return value, the value k had before if any
HashMap_insert_old(m, k) == IF k \in DOMAIN m THEN Some(m[k]) ELSE None

\* variant: the key is the caller's slice as given
type_list_as_given(types) == extend_from_slice(<<>>, types)

\* TypeCache::type_list: TypeList::new in the cache's allocator
type_list(types) == TypeList_new(types)

\* the slices the cache's callers build unions from
CallerSlices == {s \in Slices : Range(s) \subseteq 1..MaxKeyMember}

\* every TypeList a caller can hold: the type_list of some slice
TypeLists == {type_list(s) : s \in CallerSlices}

Call(op, table, key, id, ret) ==
    [op |-> op, table |-> table, key |-> key, id |-> id, ret |-> ret]

\* variant: the assertion is left out
debug_assert_left_out(existing) == FALSE

\* debug_assert!(existing.is_none()): panics only when compiled in
debug_assert_is_none(existing) == debug_assertions /\ existing # None

(***************************************************************************)
(* TypeCache operations (type_cache.rs:80-135).                            *)
(***************************************************************************)
\* TypeCache::new: every table empty
\* RefCell::new: nothing is borrowed
RefCell_new == 0

\* RefCell::borrow on a cell that has no writer: one reader more
RefCell_borrow(flag) == flag + 1

\* variant: the Ref is kept after the operation has returned
Ref_drop_kept(flag) == flag

\* the temporary Ref goes out of scope at the end of the statement
Ref_drop(flag) == flag - 1

\* RefCell::borrow_mut on an unused cell: one writer
RefCell_borrow_mut(flag) == -1

\* the temporary RefMut goes out of scope at the end of the statement
RefMut_drop(flag) == flag + 1

\* the panic of borrow / borrow_mut: the operation does nothing else
BorrowPanics ==
    /\ already_borrowed' = TRUE
    /\ UNCHANGED <<tables, borrow_flag, debug_assertions, panicked, last, lists>>

\* self.<table>.borrow() around the rest of the statement
borrow(table, statement) ==
    /\ ~already_borrowed
    /\ IF borrow_flag[table] >= 0
       THEN /\ statement
            /\ borrow_flag' =
                  [borrow_flag EXCEPT ![table] = Ref_drop(RefCell_borrow(@))]
            /\ UNCHANGED already_borrowed
       ELSE BorrowPanics

\* self.<table>.borrow_mut() around the rest of the statement
borrow_mut(table, statement) ==
    /\ ~already_borrowed
    /\ IF borrow_flag[table] = 0
       THEN /\ statement
            /\ borrow_flag' =
                  [borrow_flag EXCEPT ![table] = RefMut_drop(RefCell_borrow_mut(@))]
            /\ UNCHANGED already_borrowed
       ELSE BorrowPanics

TypeCache_new ==
    /\ borrow_flag = [t \in {"tuples", "unions", "union_of_unions", "intersections",
                              "string_literals", "number_literals",
                              "big_int_literals"} |-> RefCell_new]
    /\ tuples = Cache_default
    /\ unions = Cache_default
    /\ union_of_unions = Cache_default
    /\ intersections = Cache_default
    /\ string_literals = Cache_default
    /\ number_literals = Cache_default
    /\ big_int_literals = Cache_default

\* variant: the lookup goes to the intersections table
get_union_wrong_table(types) ==
    /\ ~panicked
    /\ borrow("intersections",
          /\ last' = Call("get", "unions", types, None, HashMap_get(intersections, types))
          /\ UNCHANGED <<tables, debug_assertions, panicked, lists>>)

get_union(types) ==
    /\ ~panicked
    /\ borrow("unions",
          /\ last' = Call("get", "unions", types, None, HashMap_get(unions, types))
          /\ UNCHANGED <<tables, debug_assertions, panicked, lists>>)

\* variant: the entry goes to the intersections table
add_union_wrong_table(types, id) ==
    /\ ~panicked
    /\ borrow_mut("intersections",
          /\ LET existing == HashMap_insert_old(intersections, types)
             IN /\ intersections' = HashMap_insert(intersections, types, id)
                /\ panicked' = debug_assert_is_none(existing)
                /\ last' = Call("add", "unions", types, Some(id), existing)
          /\ UNCHANGED <<tuples, union_of_unions, unions, string_literals,
                         number_literals, big_int_literals, debug_assertions, lists>>)

\* variant: the entry goes to the unions and to the intersections table
add_union_both_tables(types, id) ==
    /\ ~panicked
    /\ borrow_mut("unions",
          /\ LET existing == HashMap_insert_old(unions, types)
             IN /\ unions' = HashMap_insert(unions, types, id)
                /\ intersections' = HashMap_insert(intersections, types, id)
                /\ panicked' = debug_assert_is_none(existing)
                /\ last' = Call("add", "unions", types, Some(id), existing)
          /\ UNCHANGED <<tuples, union_of_unions, string_literals,
                         number_literals, big_int_literals, debug_assertions, lists>>)

add_union(types, id) ==
    /\ ~panicked
    /\ borrow_mut("unions",
          /\ LET existing == HashMap_insert_old(unions, types)
             IN /\ unions' = HashMap_insert(unions, types, id)
                /\ panicked' = debug_assert_is_none(existing)
                /\ last' = Call("add", "unions", types, Some(id), existing)
          /\ UNCHANGED <<tuples, union_of_unions, intersections, string_literals,
                         number_literals, big_int_literals, debug_assertions, lists>>)

\* f64 == on the values the bit patterns stand for: a NaN equals nothing,
\* the two zeros equal each other
f64_eq(a, b) ==
    LET is_nan(x) == x.exponent = 2047 /\ x.fraction # 0
        is_zero(x) == x.exponent = 0 /\ x.fraction = 0
    IN /\ ~is_nan(a)
       /\ ~is_nan(b)
       /\ (a = b \/ (is_zero(a) /\ is_zero(b)))

\* HashMap::remove(k): the map afterwards
HashMap_remove(m, k) == [x \in (DOMAIN m) \ {k} |-> m[x]]

\* variant: the entry is taken out of the table (remove instead of get)
get_number_remove(value) ==
    /\ ~panicked
    /\ borrow("number_literals",
          /\ last' = Call("get", "number_literals", value, None,
                          HashMap_get(number_literals, value))
          /\ number_literals' = HashMap_remove(number_literals, value)
          /\ UNCHANGED <<tuples, unions, union_of_unions, intersections,
                         string_literals, big_int_literals, debug_assertions,
                         panicked, lists>>)

\* variant: the table is searched by f64 equality instead of by bits
get_number_float_eq(value) ==
    /\ ~panicked
    /\ borrow("number_literals",
          /\ LET found == {k \in DOMAIN number_literals : f64_eq(k, value)}
             IN last' = Call("get", "number_literals", value, None,
                             {number_literals[k] : k \in found})
          /\ UNCHANGED <<tables, debug_assertions, panicked, lists>>)

get_number(value) ==
    /\ ~panicked
    /\ borrow("number_literals",
          /\ last' = Call("get", "number_literals", value, None,
                          HashMap_get(number_literals, value))
          /\ UNCHANGED <<tables, debug_assertions, panicked, lists>>)

\* variant: the assertion is made before the insertion, which a failing
\* assertion then skips
add_number_check_first(value, type_id) ==
    /\ ~panicked
    /\ borrow_mut("number_literals",
          /\ LET existing == HashMap_get(number_literals, value)
             IN /\ panicked' = debug_assert_is_none(existing)
                /\ number_literals' = IF panicked' THEN number_literals
                                      ELSE HashMap_insert(number_literals, value, type_id)
                /\ last' = Call("add", "number_literals", value, Some(type_id), existing)
          /\ UNCHANGED <<tuples, unions, union_of_unions, intersections,
                         string_literals, big_int_literals, debug_assertions, lists>>)

add_number(value, type_id) ==
    /\ ~panicked
    /\ borrow_mut("number_literals",
          /\ LET existing == HashMap_insert_old(number_literals, value)
             IN /\ number_literals' = HashMap_insert(number_literals, value, type_id)
                /\ panicked' = debug_assert_is_none(existing)
                /\ last' = Call("add", "number_literals", value, Some(type_id), existing)
          /\ UNCHANGED <<tuples, unions, union_of_unions, intersections,
                         string_literals, big_int_literals, debug_assertions, lists>>)

\* variant: the lookup goes to the big-int table
get_string_wrong_table(value) ==
    /\ ~panicked
    /\ borrow("big_int_literals",
          /\ last' = Call("get", "string_literals", value, None,
                          HashMap_get(big_int_literals, value))
          /\ UNCHANGED <<tables, debug_assertions, panicked, lists>>)

get_string(value) ==
    /\ ~panicked
    /\ borrow("string_literals",
          /\ last' = Call("get", "string_literals", value, None,
                          HashMap_get(string_literals, value))
          /\ UNCHANGED <<tables, debug_assertions, panicked, lists>>)

\* variant: the entry goes to the big-int table as well
set_string_also_big_int(value, type_id) ==
    /\ ~panicked
    /\ borrow_mut("string_literals",
          /\ LET existing == HashMap_insert_old(string_literals, value)
             IN /\ string_literals' = HashMap_insert(string_literals, value, type_id)
                /\ big_int_literals' = HashMap_insert(big_int_literals, value, type_id)
                /\ panicked' = debug_assert_is_none(existing)
                /\ last' = Call("add", "string_literals", value, Some(type_id), existing)
          /\ UNCHANGED <<tuples, unions, union_of_unions, intersections,
                         number_literals, debug_assertions, lists>>)

set_string(value, type_id) ==
    /\ ~panicked
    /\ borrow_mut("string_literals",
          /\ LET existing == HashMap_insert_old(string_literals, value)
             IN /\ string_literals' = HashMap_insert(string_literals, value, type_id)
                /\ panicked' = debug_assert_is_none(existing)
                /\ last' = Call("add", "string_literals", value, Some(type_id), existing)
          /\ UNCHANGED <<tuples, unions, union_of_unions, intersections,
                         number_literals, big_int_literals, debug_assertions, lists>>)

get_big_int(raw_value) ==
    /\ ~panicked
    /\ borrow("big_int_literals",
          /\ last' = Call("get", "big_int_literals", raw_value, None,
                          HashMap_get(big_int_literals, raw_value))
          /\ UNCHANGED <<tables, debug_assertions, panicked, lists>>)

set_big_int(raw_value, type_id) ==
    /\ ~panicked
    /\ borrow_mut("big_int_literals",
          /\ LET existing == HashMap_insert_old(big_int_literals, raw_value)
             IN /\ big_int_literals' = HashMap_insert(big_int_literals, raw_value, type_id)
                /\ panicked' = debug_assert_is_none(existing)
                /\ last' = Call("add", "big_int_literals", raw_value, Some(type_id), existing)
          /\ UNCHANGED <<tuples, unions, union_of_unions, intersections,
                         string_literals, number_literals, debug_assertions, lists>>)

\* get/add pair of the intersections table (type_cache.rs:54), after the
\* pair of the unions table: the source declares the table and defines no
\* operation on it.
get_intersection(types) ==
    /\ ~panicked
    /\ borrow("intersections",
          /\ last' = Call("get", "intersections", types, None,
                          HashMap_get(intersections, types))
          /\ UNCHANGED <<tables, debug_assertions, panicked, lists>>)

add_intersection(types, id) ==
    /\ ~panicked
    /\ borrow_mut("intersections",
          /\ LET existing == HashMap_insert_old(intersections, types)
             IN /\ intersections' = HashMap_insert(intersections, types, id)
                /\ panicked' = debug_assert_is_none(existing)
                /\ last' = Call("add", "intersections", types, Some(id), existing)
          /\ UNCHANGED <<tuples, unions, union_of_unions, string_literals,
                         number_literals, big_int_literals, debug_assertions, lists>>)

(***************************************************************************)
(* Spec: a caller that calls the operations in any order, with any key and *)
(* any id (it need not look a key up before adding it).                    *)
(***************************************************************************)
(***************************************************************************)
(* JSDocPluginSettings (crates/oxc_linter/src/config/settings/jsdoc.rs).   *)
(* A String the code formats is the sequence of its pieces.                *)
(***************************************************************************)
\* enum TagNamePreference
TagNameOnly(name) == [kind |-> "TagNameOnly", replacement |-> name]
ObjectWithMessageAndReplacement(message, replacement) ==
    [kind |-> "ObjectWithMessageAndReplacement", message |-> message,
     replacement |-> replacement]
ObjectWithMessage(message) == [kind |-> "ObjectWithMessage", message |-> message]
FalseOnly(b) == [kind |-> "FalseOnly", value |-> b]

\* tag names, replacements and messages of the settings considered
TagNames == {"foo", "virtual", "return"}
AskedNames == TagNames \cup {"qux"}
Replacements == {"bar", "abstract"}
Messages == {"noop"}

TagNamePreferences ==
    {TagNameOnly(r) : r \in Replacements}
    \cup {ObjectWithMessageAndReplacement(m, r) : m \in Messages, r \in Replacements}
    \cup {ObjectWithMessage(m) : m \in Messages}
    \cup {FalseOnly(b) : b \in BOOLEAN}

\* the values of tag_name_preference: a map on some of the tag names
PreferenceMaps ==
    UNION {[names -> TagNamePreferences] : names \in SUBSET TagNames}

\* the match on original_name in check_preferred_tag_name
aliased_name(original) ==
    CASE original = "virtual" -> "abstract"
      [] original = "extends" -> "augments"
      [] original = "constructor" -> "class"
      [] original = "const" -> "constant"
      [] original = "defaultvalue" -> "default"
      [] original = "desc" -> "description"
      [] original = "host" -> "external"
      [] original \in {"fileoverview", "overview"} -> "file"
      [] original = "emits" -> "fires"
      [] original \in {"func", "method"} -> "function"
      [] original = "var" -> "member"
      [] original \in {"arg", "argument"} -> "param"
      [] original = "prop" -> "property"
      [] original = "return" -> "returns"
      [] original = "exception" -> "throws"
      [] original = "yield" -> "yields"
      [] OTHER -> original

\* the grave accent that the messages put around a tag, as one piece
grave == "U+0060"

\* the closure reason in check_preferred_tag_name
reason(original, preferred_name) ==
    <<"Replace tag ", grave, "@", original, grave, " with ", grave, "@",
      preferred_name, grave, ".">>

\* tag_name_preference.get(name): the kind of the preference, empty when absent
KindOf(pref, name) == IF name \in DOMAIN pref THEN pref[name].kind ELSE ""

check_blocked_tag_name(pref, tag_name) ==
    CASE KindOf(pref, tag_name) = "FalseOnly" ->
            Some(<<"Unexpected tag ", grave, "@", tag_name, grave, ".">>)
      [] KindOf(pref, tag_name) = "ObjectWithMessage" ->
            Some(<<pref[tag_name].message>>)
      [] OTHER -> None

\* variant: the default alias is looked at before the preference of the user
check_preferred_tag_name_alias_first(pref, original) ==
    IF aliased_name(original) # original
    THEN Some(reason(original, aliased_name(original)))
    ELSE CASE KindOf(pref, original) = "TagNameOnly" ->
                 Some(reason(original, pref[original].replacement))
           [] KindOf(pref, original) = "ObjectWithMessageAndReplacement" ->
                 Some(<<pref[original].message>>)
           [] OTHER -> None

check_preferred_tag_name(pref, original) ==
    CASE KindOf(pref, original) = "TagNameOnly" ->
            Some(reason(original, pref[original].replacement))
      [] KindOf(pref, original) = "ObjectWithMessageAndReplacement" ->
            Some(<<pref[original].message>>)
      [] OTHER ->
            IF aliased_name(original) # original
            THEN Some(reason(original, aliased_name(original)))
            ELSE None

\* variant: a tag without a user replacement resolves to its default alias
resolve_tag_name_with_alias(pref, original) ==
    IF KindOf(pref, original) \in {"TagNameOnly", "ObjectWithMessageAndReplacement"}
    THEN pref[original].replacement
    ELSE aliased_name(original)

resolve_tag_name(pref, original) ==
    IF KindOf(pref, original) \in {"TagNameOnly", "ObjectWithMessageAndReplacement"}
    THEN pref[original].replacement
    ELSE original

JsdocIdle ==
    /\ tag_name_preference = <<>>
    /\ original_name = ""
    /\ resolved = ""
    /\ preferred = None
    /\ blocked = None
    /\ jpc = "off"

ListsIdle ==
    /\ types_a = <<>> /\ types_b = <<>>
    /\ list_a = <<>> /\ list_b = <<>> /\ relist_a = <<>>
    /\ from_a = <<>> /\ tuple_a = <<>> /\ tuple_b = <<>>
    /\ clone_a = <<>> /\ clone_panicked = FALSE
    /\ lpc = "off"
    /\ JsdocIdle

\* the call sites of the checker
Callers == {1, 2}

NoRequest == [table |-> "", key |-> <<>>, shape |-> {}, canonical |-> TRUE, ret |-> None]

SessionIdle ==
    /\ cpc = [c \in Callers |-> "idle"]
    /\ creq = [c \in Callers |-> NoRequest]
    /\ next_id = 100
    /\ served = {}
    /\ nreq = 0

ProcInit ==
    /\ debug_assertions \in BOOLEAN
    /\ panicked = FALSE
    /\ already_borrowed = FALSE
    /\ last = Call("new", "", <<>>, None, None)
    /\ nops = 0

Init ==
    /\ TypeCache_new
    /\ ProcInit
    /\ SessionIdle
    /\ ListsIdle

CountAdd == nops < MaxOps /\ nops' = nops + 1 /\ UNCHANGED session

NoCount == UNCHANGED <<nops, session>>

Next ==
    \/ \E types \in TypeLists : get_union(types) /\ NoCount
    \/ \E types \in TypeLists, id \in NewIds : add_union(types, id) /\ CountAdd
    \/ \E n \in Numbers : get_number(n) /\ NoCount
    \/ \E n \in Numbers, id \in NewIds : add_number(n, id) /\ CountAdd
    \/ \E a \in Atoms : get_string(a) /\ NoCount
    \/ \E a \in Atoms, id \in NewIds : set_string(a, id) /\ CountAdd
    \/ \E a \in Atoms : get_big_int(a) /\ NoCount
    \/ \E a \in Atoms, id \in NewIds : set_big_int(a, id) /\ CountAdd

Spec == Init /\ [][Next]_vars

(***************************************************************************)
(* IsolationSpec: a caller of the union and the intersection pair, in any  *)
(* order, with any key and any id.                                         *)
(***************************************************************************)
IsolationNext ==
    \/ \E types \in TypeLists : get_union(types) /\ NoCount
    \/ \E types \in TypeLists, id \in NewIds : add_union(types, id) /\ CountAdd
    \/ \E types \in TypeLists : get_intersection(types) /\ NoCount
    \/ \E types \in TypeLists, id \in NewIds : add_intersection(types, id) /\ CountAdd

IsolationSpec == Init /\ [][IsolationNext]_vars

(***************************************************************************)
(* ProtocolSpec: one thread of control whose call sites all follow         *)
(* get-before-add: build the key, get, and only on a miss create a fresh    *)
(* TypeId and add it.  A request runs to its end before the next starts.   *)
(***************************************************************************)
Request(table, key, shape, canonical, ret) ==
    [table |-> table, key |-> key, shape |-> shape, canonical |-> canonical,
     ret |-> ret]

Answer(req, id, created) ==
    [table |-> req.table, shape |-> req.shape, canonical |-> req.canonical,
     id |-> id, created |-> created]

\* a call site may start a request
Ready(c) == nreq < MaxReqs /\ cpc[c] = "idle"

\* a call site has looked the key up and holds the result
Looked(c, table, key, shape, canonical) ==
    /\ nreq' = nreq + 1
    /\ creq' = [creq EXCEPT ![c] = Request(table, key, shape, canonical, last'.ret)]
    /\ cpc' = [cpc EXCEPT ![c] = IF last'.ret = None THEN "miss" ELSE "hit"]
    /\ UNCHANGED <<next_id, served, nops>>

lookup_union(c, types) ==
    /\ Ready(c)
    /\ LET key == type_list(types)
       IN get_union(key) /\ Looked(c, "unions", key, Range(types), types = key)

lookup_number(c, value) ==
    /\ Ready(c)
    /\ get_number(value)
    /\ Looked(c, "number_literals", value, value, TRUE)

lookup_string(c, value) ==
    /\ Ready(c)
    /\ get_string(value)
    /\ Looked(c, "string_literals", value, value, TRUE)

lookup_big_int(c, raw_value) ==
    /\ Ready(c)
    /\ get_big_int(raw_value)
    /\ Looked(c, "big_int_literals", raw_value, raw_value, TRUE)

\* cache hit: the existing TypeId is used, nothing is created
reuse(c) ==
    /\ cpc[c] = "hit"
    /\ ~panicked
    /\ served' = served \cup {Answer(creq[c], CHOOSE id \in creq[c].ret : TRUE, FALSE)}
    /\ cpc' = [cpc EXCEPT ![c] = "idle"]
    /\ creq' = [creq EXCEPT ![c] = NoRequest]
    /\ UNCHANGED <<tables, cells, proc, next_id, nreq, lists>>

\* cache miss: the checker creates a new TypeId and registers it
create_and_add(c) ==
    /\ cpc[c] = "miss"
    /\ LET req == creq[c]
           id == next_id
       IN /\ CASE req.table = "unions" -> add_union(req.key, id)
               [] req.table = "number_literals" -> add_number(req.key, id)
               [] req.table = "string_literals" -> set_string(req.key, id)
               [] req.table = "big_int_literals" -> set_big_int(req.key, id)
          /\ served' = served \cup {Answer(req, id, TRUE)}
    /\ next_id' = next_id + 1
    /\ cpc' = [cpc EXCEPT ![c] = "idle"]
    /\ creq' = [creq EXCEPT ![c] = NoRequest]
    /\ UNCHANGED <<nops, nreq>>

\* single thread of control: no other request is in progress
Alone(c) == \A d \in Callers \ {c} : cpc[d] = "idle"

ProtocolNext ==
    \/ \E c \in Callers, types \in CallerSlices : Alone(c) /\ lookup_union(c, types)
    \/ \E c \in Callers, n \in Numbers : Alone(c) /\ lookup_number(c, n)
    \/ \E c \in Callers, a \in Atoms : Alone(c) /\ lookup_string(c, a)
    \/ \E c \in Callers, a \in Atoms : Alone(c) /\ lookup_big_int(c, a)
    \/ \E c \in Callers : Alone(c) /\ reuse(c)
    \/ \E c \in Callers : Alone(c) /\ create_and_add(c)

ProtocolSpec == Init /\ [][ProtocolNext]_vars

(***************************************************************************)
(* RaceSpec: two call sites that each follow get-before-add, their get and *)
(* add steps interleaved in any order.                                     *)
(***************************************************************************)
RaceNext ==
    \/ \E c \in Callers, types \in CallerSlices : lookup_union(c, types)
    \/ \E c \in Callers, n \in Numbers : lookup_number(c, n)
    \/ \E c \in Callers, a \in Atoms : lookup_string(c, a)
    \/ \E c \in Callers, a \in Atoms : lookup_big_int(c, a)
    \/ \E c \in Callers : reuse(c)
    \/ \E c \in Callers : create_and_add(c)

RaceSpec == Init /\ [][RaceNext]_vars

(***************************************************************************)
(* ListSpec: TypeList::new applied to every pair of input slices, and then *)
(* once more to the slice view of its own result.                          *)
(***************************************************************************)
ListInit ==
    /\ TypeCache_new
    /\ ProcInit
    /\ SessionIdle
    /\ types_a \in Slices
    /\ types_b \in Slices
    /\ list_a = <<>> /\ list_b = <<>> /\ relist_a = <<>>
    /\ from_a = <<>> /\ tuple_a = <<>> /\ tuple_b = <<>>
    /\ clone_a = <<>> /\ clone_panicked = FALSE
    /\ lpc = "input"
    /\ JsdocIdle

Build ==
    /\ lpc = "input"
    /\ list_a' = TypeList_new(types_a)
    /\ list_b' = TypeList_new(types_b)
    /\ from_a' = TypeList_from_iter(types_a)
    /\ tuple_a' = getTypeListId(types_a)
    /\ tuple_b' = getTypeListId(types_b)
    /\ lpc' = "built"
    /\ UNCHANGED <<tables, cells, proc, session, types_a, types_b, relist_a, cloned,
                   jsdoc>>

Rebuild ==
    /\ lpc = "built"
    /\ relist_a' = TypeList_new(deref(list_a))
    /\ lpc' = "rebuilt"
    /\ UNCHANGED <<tables, cells, proc, session, types_a, types_b, list_a, list_b,
                   from_a, tuple_a, tuple_b, cloned, jsdoc>>

\* list_a.clone_in(alloc)
Clone ==
    /\ lpc = "rebuilt"
    /\ LET r == clone_in(list_a)
       IN /\ clone_panicked' = r.panicked
          /\ clone_a' = r.list
    /\ lpc' = "cloned"
    /\ UNCHANGED <<tables, cells, proc, session, types_a, types_b, list_a, list_b,
                   relist_a, from_a, tuple_a, tuple_b, jsdoc>>

ListNext == Build \/ Rebuild \/ Clone

ListSpec == ListInit /\ [][ListNext]_vars

(***************************************************************************)
(* JsdocSpec: the three tag-name queries, for every settings value and     *)
(* every tag name.                                                         *)
(***************************************************************************)
JsdocInit ==
    /\ TypeCache_new
    /\ ProcInit
    /\ SessionIdle
    /\ types_a = <<>> /\ types_b = <<>>
    /\ list_a = <<>> /\ list_b = <<>> /\ relist_a = <<>>
    /\ from_a = <<>> /\ tuple_a = <<>> /\ tuple_b = <<>>
    /\ clone_a = <<>> /\ clone_panicked = FALSE
    /\ lpc = "off"
    /\ tag_name_preference \in PreferenceMaps
    /\ original_name \in AskedNames
    /\ resolved = ""
    /\ preferred = None
    /\ blocked = None
    /\ jpc = "settings"

JsdocFrame ==
    UNCHANGED <<tables, cells, proc, session, types_a, types_b, list_a, list_b, relist_a,
                from_a, tuple_a, tuple_b, lpc, cloned, tag_name_preference,
                original_name>>

Resolve ==
    /\ jpc = "settings"
    /\ resolved' = resolve_tag_name(tag_name_preference, original_name)
    /\ jpc' = "resolved"
    /\ UNCHANGED <<preferred, blocked>>
    /\ JsdocFrame

CheckPreferred ==
    /\ jpc = "resolved"
    /\ preferred' = check_preferred_tag_name(tag_name_preference, original_name)
    /\ jpc' = "preferred"
    /\ UNCHANGED <<resolved, blocked>>
    /\ JsdocFrame

CheckBlocked ==
    /\ jpc = "preferred"
    /\ blocked' = check_blocked_tag_name(tag_name_preference, original_name)
    /\ jpc' = "done"
    /\ UNCHANGED <<resolved, preferred>>
    /\ JsdocFrame

JsdocNext == Resolve \/ CheckPreferred \/ CheckBlocked

JsdocSpec == JsdocInit /\ [][JsdocNext]_vars

(***************************************************************************)
(* Properties.                                                             *)
(***************************************************************************)
\* the table a field name stands for
Table(name) ==
    CASE name = "tuples" -> tuples
      [] name = "unions" -> unions
      [] name = "union_of_unions" -> union_of_unions
      [] name = "intersections" -> intersections
      [] name = "string_literals" -> string_literals
      [] name = "number_literals" -> number_literals
      [] name = "big_int_literals" -> big_int_literals

\* the keys a table is looked up with
KeysOf(name) ==
    CASE name = "unions" -> TypeLists
      [] name = "number_literals" -> Numbers
      [] name = "string_literals" -> Atoms
      [] name = "big_int_literals" -> Atoms

\* the tables that have a get and an add operation
OperatedTables == {"unions", "number_literals", "string_literals", "big_int_literals"}

AllTables == OperatedTables \cup {"tuples", "union_of_unions", "intersections"}

\* the last call was an add, and the key had no mapping before it
AddedFresh == last.op = "add" /\ last.ret = None

\* the last call was an add, and the key already had a mapping
AddedAgain == last.op = "add" /\ last.ret # None

\* C1: on a freshly created cache every get returns nothing (every table is
\* empty), and in the state right after add(k, id) on a table that had no
\* mapping for k, get(k) on that table returns exactly id.
C1_GetAfterAdd ==
    /\ last.op = "new" =>
          /\ \A t \in AllTables : DOMAIN Table(t) = {}
          /\ \A t \in OperatedTables : \A k \in KeysOf(t) : HashMap_get(Table(t), k) = None
    /\ AddedFresh => HashMap_get(Table(last.table), last.key) = last.id

\* a union was just added under a key that had no mapping
C1_Witness ==
    /\ AddedFresh
    /\ last.table = "unions"
    /\ Len(last.key) >= 2
    /\ last.id = Some(200)

\* C9: in a debug build, add(k, id2) on a table that already maps k fails
\* the assertion, whichever add operation it is.
C9_ReinsertPanics ==
    (debug_assertions /\ AddedAgain) => panicked

\* a number literal was added twice in a debug build
C9_Witness ==
    /\ debug_assertions
    /\ AddedAgain
    /\ last.table = "number_literals"

\* C10: in a release build, add(k, id2) on a table that maps k to id1
\* completes without a panic and leaves k mapped to id2, and a get returns
\* what the table maps its key to.
C10_ReleaseOverwrites ==
    /\ (~debug_assertions /\ AddedAgain) =>
          /\ ~panicked
          /\ HashMap_get(Table(last.table), last.key) = last.id
    /\ (~debug_assertions /\ last.op = "get") =>
          last.ret = HashMap_get(Table(last.table), last.key)

\* id1 = 100 was overwritten by id2 = 200 in a release build
C10_Witness ==
    /\ ~debug_assertions
    /\ AddedAgain
    /\ last.ret = Some(100)
    /\ last.id = Some(200)
    /\ HashMap_get(Table(last.table), last.key) = Some(200)

\* C11: get is a pure lookup: a get, hit or miss, leaves every table as it
\* was, and a get repeated right after the same get returns the same result.
C11_GetIsPure ==
    [][ last'.op = "get" =>
          /\ tables' = tables
          /\ (last.op = "get" /\ last.table = last'.table /\ last.key = last'.key)
                => last'.ret = last.ret
      ]_vars

\* a get that hit, after two adds
C11_Witness ==
    /\ last.op = "get"
    /\ last.table = "number_literals"
    /\ last.ret = Some(200)
    /\ nops = MaxOps

\* the two Number keys have the same bit pattern
SameBits(a, b) ==
    /\ a.sign = b.sign
    /\ a.exponent = b.exponent
    /\ a.fraction = b.fraction

TableAfter(name) ==
    CASE name = "tuples" -> tuples'
      [] name = "unions" -> unions'
      [] name = "union_of_unions" -> union_of_unions'
      [] name = "intersections" -> intersections'
      [] name = "string_literals" -> string_literals'
      [] name = "number_literals" -> number_literals'
      [] name = "big_int_literals" -> big_int_literals'

\* C19: frame of add: an add changes only its own table, and in it only
\* the entry of its key.
C19_AddFrame ==
    [][ last'.op = "add" =>
          /\ \A t \in AllTables \ {last'.table} : TableAfter(t) = Table(t)
          /\ LET before == Table(last'.table)
                 after == TableAfter(last'.table)
             IN /\ DOMAIN after \subseteq (DOMAIN before) \cup {last'.key}
                /\ \A k \in (DOMAIN before) \ {last'.key} :
                      k \in DOMAIN after /\ after[k] = before[k]
      ]_vars

\* a second key was added to a table, next to an entry of another table
C19_Witness ==
    /\ last.op = "add"
    /\ last.table = "string_literals"
    /\ Cardinality(DOMAIN string_literals) = 1
    /\ Cardinality(DOMAIN big_int_literals) = 1
    /\ string_literals # big_int_literals

\* C20: the insertion comes before the check: when the assertion of an add
\* fails in a debug build, the table maps the key to the new id already.
C20_InsertBeforeCheck ==
    (debug_assertions /\ AddedAgain) =>
        /\ panicked
        /\ HashMap_get(Table(last.table), last.key) = last.id

\* the assertion failed after 100 had been replaced by 200
C20_Witness ==
    /\ debug_assertions
    /\ panicked
    /\ AddedAgain
    /\ last.table = "number_literals"
    /\ last.ret = Some(100)
    /\ last.id = Some(200)
    /\ HashMap_get(number_literals, last.key) = Some(200)

(***************************************************************************)
(* Properties of TypeList::new, under ListSpec.                            *)
(***************************************************************************)
Built == lpc \in {"built", "rebuilt", "cloned"}

Count(s, x) == Cardinality({i \in 1..Len(s) : s[i] = x})

IsPermutation(s, p) ==
    /\ Len(s) = Len(p)
    /\ \A x \in MemberIds : Count(s, x) = Count(p, x)

StrictlyAscending(s) == \A i \in 1..(Len(s) - 1) : s[i] < s[i + 1]

\* C4: order independence: TypeList::new of a slice and of any permutation
\* of it are equal lists.
C4_OrderIndependence ==
    (Built /\ IsPermutation(types_a, types_b)) => TypeList_eq(list_a, list_b)

\* two different orders of three distinct ids
C4_Witness ==
    /\ Built
    /\ IsPermutation(types_a, types_b)
    /\ types_a # types_b
    /\ Cardinality(Range(types_a)) >= 3

\* C5: canonical form: the list seen through its slice view and through
\* iter() is strictly ascending (so without duplicates) and holds exactly
\* the distinct ids of the input.
C5_CanonicalForm ==
    Built =>
        /\ StrictlyAscending(deref(list_a))
        /\ Range(deref(list_a)) = Range(types_a)
        /\ iter(list_a) = deref(list_a)

\* an unsorted input with a duplicate was built
C5_Witness ==
    /\ Built
    /\ ~StrictlyAscending(types_a)
    /\ Len(list_a) < Len(types_a)
    /\ Len(list_a) >= 2
    /\ types_a[1] > types_a[2]

\* C6: idempotence: building from the slice view of a built list gives an
\* equal list.
C6_Idempotence ==
    lpc = "rebuilt" => TypeList_eq(relist_a, list_a)

\* the round trip was made for an input that was not canonical itself
C6_Witness ==
    /\ lpc = "rebuilt"
    /\ types_a # list_a
    /\ Len(list_a) >= 2

\* C7: key injectivity: two built lists are equal exactly when their inputs
\* hold the same set of ids.
C7_KeyInjectivity ==
    Built => (TypeList_eq(list_a, list_b) <=> Range(types_a) = Range(types_b))

\* different inputs over the same id set, built to equal lists
C7_Witness ==
    /\ Built
    /\ types_a # types_b
    /\ Len(types_a) # Len(types_b)
    /\ Range(types_a) = Range(types_b)
    /\ Cardinality(Range(types_a)) >= 2
    /\ TypeList_eq(list_a, list_b)

C16_FromIterSameAsNew ==
    Built => TypeList_eq(from_a, list_a)

\* from_iter was given an unsorted sequence with a duplicate
C16_Witness ==
    /\ Built
    /\ Len(types_a) >= 3
    /\ ~StrictlyAscending(types_a)
    /\ Len(from_a) = 2
    /\ types_a[1] > types_a[2]

(***************************************************************************)
(* Properties of callers that follow get-before-add, under ProtocolSpec.   *)
(***************************************************************************)
AllIdle == \A c \in Callers : cpc[c] = "idle"

UnionAnswers == {r \in served : r.table = "unions"}

\* C2: interning: two union requests whose slices hold the same set of ids
\* receive the same TypeId, and only the first of them creates one (between
\* requests, the TypeIds created number the distinct shapes requested).
C2_Interning ==
    /\ \A r1, r2 \in UnionAnswers : r1.shape = r2.shape => r1.id = r2.id
    /\ \A c \in Callers :
          (cpc[c] # "idle" /\ creq[c].table = "unions") =>
              \A r \in UnionAnswers :
                  r.shape = creq[c].shape => (cpc[c] = "hit" /\ creq[c].ret = Some(r.id))
    /\ AllIdle =>
          next_id - 100 = Cardinality({<<r.table, r.shape>> : r \in served})

\* a union built from a canonical slice was created, and a request with a
\* reordered or duplicated slice of the same ids was answered from the cache
C2_Witness ==
    \E r1, r2 \in UnionAnswers :
        /\ r1.shape = r2.shape
        /\ Cardinality(r1.shape) >= 2
        /\ r1.created /\ r1.canonical
        /\ ~r2.created /\ ~r2.canonical
        /\ r1.id = r2.id

\* C3: no re-insertion: every add found its key without a mapping, so the
\* assertion of add_union / add_number / set_string / set_big_int has not
\* fired.
C3_NoReinsertion ==
    /\ last.op = "add" => last.ret = None
    /\ ~panicked

\* a debug build in which a key was added and then requested again: the
\* second request was a hit and added nothing
C3_Witness ==
    /\ debug_assertions
    /\ AllIdle
    /\ \E r1, r2 \in served :
          /\ r1.table = r2.table
          /\ r1.created /\ ~r2.created
          /\ r1.id = r2.id
          /\ Cardinality(DOMAIN Table(r1.table)) = 1

(***************************************************************************)
(* Category isolation, under IsolationSpec.                                *)
(***************************************************************************)
\* C8: category isolation: an add to the unions table leaves the
\* intersections table as it was and the other way round, each add leaves
\* its key mapped to its id in its own table, and each get returns what its
\* own table maps the key to; so add_union(L, 100) and
\* add_intersection(L, 200) coexist.
C8_CategoryIsolation ==
    [][ /\ (last'.op = "add" /\ last'.table = "unions") =>
              /\ intersections' = intersections
              /\ HashMap_get(unions', last'.key) = last'.id
        /\ (last'.op = "add" /\ last'.table = "intersections") =>
              /\ unions' = unions
              /\ HashMap_get(intersections', last'.key) = last'.id
        /\ (last'.op = "get" /\ last'.table = "unions") =>
              last'.ret = HashMap_get(unions', last'.key)
        /\ (last'.op = "get" /\ last'.table = "intersections") =>
              last'.ret = HashMap_get(intersections', last'.key)
      ]_vars

\* the same member list is mapped to 100 as a union and to 200 as an
\* intersection
C8_Witness ==
    \E types \in TypeLists :
        /\ Len(types) >= 2
        /\ HashMap_get(unions, types) = Some(100)
        /\ HashMap_get(intersections, types) = Some(200)
        /\ ~panicked

(***************************************************************************)
(* Interleaved callers, under RaceSpec; no eviction, under ProtocolSpec.   *)
(***************************************************************************)
\* two answers that created two different TypeIds for one key of one table
CreatedTwice(r1, r2) ==
    /\ r1.table = r2.table
    /\ r1.shape = r2.shape
    /\ r1.created /\ r2.created
    /\ r1.id # r2.id

\* C14: get-then-add is not atomic: when the steps of two callers
\* interleave, an add can find its key mapped already; both callers had
\* missed on it, the key has then been inserted twice with two different
\* TypeIds, the table keeps the later one, and a debug build panics.
C14_RaceReinserts ==
    AddedAgain =>
        /\ \E r1, r2 \in served :
              /\ CreatedTwice(r1, r2)
              /\ r1.table = last.table
              /\ last.ret = Some(r1.id)
              /\ last.id = Some(r2.id)
        /\ HashMap_get(Table(last.table), last.key) = last.id
        /\ debug_assertions => panicked

\* both callers missed on the same union and both added it
C14_Witness ==
    /\ AddedAgain
    /\ last.table = "unions"
    /\ Len(last.key) >= 2
    /\ \E r1, r2 \in served : CreatedTwice(r1, r2) /\ r1.canonical /\ ~r2.canonical
    /\ next_id = 102

\* C15: no eviction: under get-before-add, an entry a table holds is still
\* there, with the same TypeId, after every step.
C15_NoEviction ==
    [][ \A t \in AllTables :
          \A k \in DOMAIN Table(t) :
              /\ k \in DOMAIN TableAfter(t)
              /\ TableAfter(t)[k] = Table(t)[k]
      ]_vars

\* a second union was added and the first is still mapped to its id
C15_Witness ==
    /\ AllIdle
    /\ Cardinality(DOMAIN unions) = 2
    /\ \E k \in DOMAIN unions : unions[k] = 100
    /\ \E k \in DOMAIN unions : unions[k] = 101

(***************************************************************************)
(* Properties of clone_in, under ListSpec.                                 *)
(***************************************************************************)
\* what clone_in does: it panics exactly for the lists that are not empty,
\* and returns the empty list for the empty one
CloneInPanicsUnlessEmpty ==
    lpc = "cloned" =>
        /\ clone_panicked <=> list_a # <<>>
        /\ ~clone_panicked => TypeList_eq(clone_a, list_a)

\* C22: clone_in on a built list ends normally and returns a list equal to
\* the original, for every list, the non-empty ones included.
C22_CloneInEqual ==
    lpc = "cloned" => (~clone_panicked /\ TypeList_eq(clone_a, list_a))

(***************************************************************************)
(* Properties of the runtime borrow check, under Spec.                     *)
(***************************************************************************)
\* C21: every get and add releases the borrow of its table before it
\* returns, so between operations no table is borrowed and no sequence of
\* get and add calls makes borrow or borrow_mut panic.
C21_BorrowsReleased ==
    /\ \A t \in AllTables : borrow_flag[t] = 0
    /\ ~already_borrowed

\* a get that hits right after the two adds on the same table
C21_Witness ==
    /\ last.op = "get"
    /\ last.table = "unions"
    /\ last.ret # None
    /\ Cardinality(DOMAIN unions) = 2
    /\ nops = 2
    /\ borrow_flag["unions"] = 0
    /\ ~already_borrowed

(***************************************************************************)
(* Properties of the tag-name queries, under JsdocSpec.                    *)
(***************************************************************************)
\* the user configured a replacement for the tag: a plain name, or an
\* object with message and replacement
UserReplacement ==
    /\ original_name \in DOMAIN tag_name_preference
    /\ tag_name_preference[original_name].kind
          \in {"TagNameOnly", "ObjectWithMessageAndReplacement"}

\* the tag names with a built-in preferred alias
DefaultAliases ==
    [virtual |-> "abstract", extends |-> "augments", constructor |-> "class",
     const |-> "constant", defaultvalue |-> "default", desc |-> "description",
     host |-> "external", fileoverview |-> "file", overview |-> "file",
     emits |-> "fires", func |-> "function", method |-> "function",
     var |-> "member", arg |-> "param", argument |-> "param",
     prop |-> "property", return |-> "returns", exception |-> "throws",
     yield |-> "yields"]

\* the sentence that tells to replace a tag
ReplaceTag(original, replacement) ==
    <<"Replace tag ">> \o <<grave, "@", original, grave>> \o <<" with ">>
        \o <<grave, "@", replacement, grave>> \o <<".">>

Resolved == jpc \in {"resolved", "preferred", "done"}

Preferred == jpc \in {"preferred", "done"}

\* C17: resolve_tag_name returns the replacement of the user when the preference
\* is a plain name or an object with message and replacement, and the
\* original name in every other case: preference false, message only, no
\* preference, also for a tag with a built-in default alias.
C17_ResolveTagName ==
    Resolved =>
        resolved = IF UserReplacement
                   THEN tag_name_preference[original_name].replacement
                   ELSE original_name

\* the tag virtual is blocked by the user and resolves to itself, not to its alias
C17_Witness ==
    /\ Resolved
    /\ original_name = "virtual"
    /\ "virtual" \in DOMAIN tag_name_preference
    /\ tag_name_preference["virtual"].kind = "ObjectWithMessage"
    /\ "foo" \in DOMAIN tag_name_preference
    /\ tag_name_preference["foo"].kind = "TagNameOnly"
    /\ resolved = "virtual"

\* C18: check_preferred_tag_name returns a reason exactly when the user
\* configured a replacement or the tag has a built-in alias; the replacement
\* of the user comes first, its reason being the message given with it, else
\* the sentence telling to replace the original tag with the replacement;
\* for a built-in alias the reason is that sentence with the alias.
C18_CheckPreferredTagName ==
    Preferred =>
        /\ preferred # None <=>
              (UserReplacement \/ original_name \in DOMAIN DefaultAliases)
        /\ UserReplacement =>
              LET p == tag_name_preference[original_name]
              IN preferred =
                    IF p.kind = "ObjectWithMessageAndReplacement"
                    THEN Some(<<p.message>>)
                    ELSE Some(ReplaceTag(original_name, p.replacement))
        /\ (~UserReplacement /\ original_name \in DOMAIN DefaultAliases) =>
              preferred = Some(ReplaceTag(original_name,
                                          DefaultAliases[original_name]))

\* the plain replacement for virtual wins over the alias abstract
C18_Witness ==
    /\ Preferred
    /\ original_name = "virtual"
    /\ "virtual" \in DOMAIN tag_name_preference
    /\ tag_name_preference["virtual"] = TagNameOnly("bar")
    /\ preferred = Some(ReplaceTag("virtual", "bar"))

\* the user has blocked the tag: preference false, or an object with a
\* message only
UserBlocked ==
    /\ original_name \in DOMAIN tag_name_preference
    /\ tag_name_preference[original_name].kind \in {"FalseOnly", "ObjectWithMessage"}

\* what the two checks do together: both return a reason exactly for a
\* blocked tag that has a built-in alias
BothReasonsForBlockedAlias ==
    jpc = "done" =>
        ((blocked # None /\ preferred # None)
            <=> (UserBlocked /\ original_name \in DOMAIN DefaultAliases))

\* C23: for every settings value and every tag name at most one of
\* check_blocked_tag_name and check_preferred_tag_name returns a reason: a
\* blocked tag is never also reported as having a preferred replacement,
\* also when it has a built-in alias.
C23_AtMostOneReason ==
    jpc = "done" => ~(blocked # None /\ preferred # None)

=============================================================================
